---- MODULE Spec2Model ----
(***************************************************************************)
(* Node/beam structure, selection controller and link/delete actions of    *)
(* the EMechanical sandbox.                                                *)
(*                                                                         *)
(* The repository holds three snapshots of the same prototype; each is a   *)
(* complete set of handlers over the same kind of state, and the model     *)
(* runs whichever one `variant` names:                                     *)
(*   "page"      src/src/world/page.js + src/src/models/{node,nodeManager, *)
(*               beam}.js                                                  *)
(*   "selection" src/new space code/src/{main.js,models/*} +               *)
(*               SelectionManager (src/unnamed/part_009)                   *)
(*   "world"     src/emechnical/src/world/World.ts + EngineeringManager.ts *)
(*               + src/src/models/Node.ts                                  *)
(*                                                                         *)
(* Objects live in two heaps (`joiner`, `beam`) indexed by identity; the   *)
(* manager's collections `nodes` and `beams` hold identities, so an object *)
(* that was removed from a collection can still be referenced elsewhere.   *)
(* Calls into three.js and the DOM are taken to return normally.  The      *)
(* exceptions modelled are the ones the repository's own code raises: a    *)
(* member access on undefined or null, and the use of an undeclared        *)
(* identifier.  An exception aborts the handler where it is raised; the    *)
(* assignments made before it stay.                                        *)
(***************************************************************************)
EXTENDS Integers, Sequences, FiniteSets, TLC

\* Bounds of the model: how many nodes / beams are ever constructed.
MaxNodes == 3
MaxBeams == 1
MaxApiBeams == 2

Variants == {"page", "selection", "world"}

\* addNode draws a random position.  The model places the k-th node ever
\* created at Place(k): the nodes lie on a line, no two at the same place, and
\* all pairwise distances are different integers.
Place(k) == <<2^k - 1, 0, 0>>

VARIABLES
    variant,             \* which snapshot of the program runs
    joiner,              \* heap of node objects (Joiner / Node), by identity
    beam,                \* heap of beam objects, by identity
    nodes,               \* NodeManager.nodes / EngineeringManager.nodes
    beams,               \* NodeManager.beams / EngineeringManager.beams
    gizmo,               \* transformControls.object: node identity, 0 = detached
    isGizmoIntersecting, \* World.transformControls.isIntersecting
    isMultiSelect,       \* Utilities.keyState.ControlLeft / SelectionManager.isMultiSelect
    isDragSelecting,     \* SelectionManager.isDragSelecting
    selectedObjects,     \* SelectionManager.selectedObjects
    linkDisabled,        \* Utilities.ui.linkButton.disabled / linkNodesButton.disabled
    deleteDisabled,      \* Utilities.ui.deleteButton.disabled / deleteSelectedButton.disabled
    infoPanel,           \* text of the status sink (Utilities.ui.infoPanel / infoPanelTextChanged)
    err,                 \* exception raised by the last handler, "none" if it returned
    last,                \* the last handler that ran and its input
    phys                 \* motion channels of the nodes under analysis, last analysis result

vars == <<variant, joiner, beam, nodes, beams, gizmo, isGizmoIntersecting,
          isMultiSelect, isDragSelecting, selectedObjects, linkDisabled,
          deleteDisabled, infoPanel, err, last, phys>>

----------------------------------------------------------------------------
(* Sequence helpers (Array.prototype.filter / find / indexOf / splice).    *)

Range(s) == {s[i] : i \in 1..Len(s)}

\* Array.splice(indexOf(x), 1) guarded by index > -1: removes the first x.
RECURSIVE Remove(_, _)
Remove(s, x) ==
    IF s = <<>> THEN <<>>
    ELSE IF Head(s) = x THEN Tail(s)
    ELSE <<Head(s)>> \o Remove(Tail(s), x)

\* Vector3.distanceTo; the square root is exact for the places of the model.
Sqrt(s) == CHOOSE r \in 0..s : r * r <= s /\ (r + 1) * (r + 1) > s
distanceTo(p, q) ==
    Sqrt((p[1] - q[1]) * (p[1] - q[1]) + (p[2] - q[2]) * (p[2] - q[2])
         + (p[3] - q[3]) * (p[3] - q[3]))

----------------------------------------------------------------------------
(* Joiner / Node objects.                                                  *)

\* new Joiner(position) / new Node(position)
NewJoiner(p) ==
    [position |-> p, isSelected |-> FALSE, selectedIndex |-> 0, mesh |-> TRUE]

\* The state a selection operation works on: the node heap and the gizmo.
\* unselect that leaves selectedIndex as it was
JoinerUnselectKeepingIndex(st, n) ==
    [st EXCEPT !.j[n].isSelected = FALSE, !.g = 0]

\* Joiner.unselect(transformControls)
JoinerUnselect(st, n) ==
    [st EXCEPT !.j[n].isSelected = FALSE, !.j[n].selectedIndex = 0, !.g = 0]

\* select without the two guards on the incremented index
JoinerSelectUnguarded(st, n, allowMultiple) ==
    LET idx == st.j[n].selectedIndex + 1
        sel == [st EXCEPT !.j[n].isSelected = TRUE, !.j[n].selectedIndex = idx]
    IN  IF idx > 1 \/ allowMultiple THEN [sel EXCEPT !.g = 0]
        ELSE [sel EXCEPT !.g = n]

\* Joiner.select(transformControls, allowMultiple)
JoinerSelect(st, n, allowMultiple) ==
    LET idx == st.j[n].selectedIndex + 1
        sel == [st EXCEPT !.j[n].isSelected = TRUE, !.j[n].selectedIndex = idx]
    IN  IF idx > 2 THEN JoinerUnselect(sel, n)
        ELSE IF idx > 1 /\ ~allowMultiple THEN JoinerUnselect(sel, n)
        ELSE IF idx > 1 \/ allowMultiple THEN [sel EXCEPT !.g = 0]
        ELSE [sel EXCEPT !.g = n]

\* Node.select(transformControls, toggle) of the TypeScript snapshot; ctrl is
\* Utilities.keyState.ControlLeft.
NodeSelect(st, n, toggle, ctrl) ==
    LET now == IF toggle THEN ~st.j[n].isSelected ELSE TRUE
    IN  IF now
        THEN [st EXCEPT !.j[n].isSelected = TRUE,
                        !.j[n].selectedIndex = IF ctrl THEN 2 ELSE 1,
                        !.g = IF st.g = 0 THEN n ELSE st.g]
        ELSE [st EXCEPT !.j[n].isSelected = FALSE,
                        !.j[n].selectedIndex = 0,
                        !.g = 0]

----------------------------------------------------------------------------
(* Manager queries.                                                        *)

IsSel(j, n) == j[n].isSelected
selectedNodesOf(j, ns) == SelectSeq(ns, LAMBDA n : IsSel(j, n))
selectedNodes == selectedNodesOf(joiner, nodes)
isOnly1NodeSelected == Len(selectedNodes) = 1
isOnly2NodesSelected == Len(selectedNodes) = 2
isAnySelected == Len(selectedNodes) > 0
selectedNodeOf(j, ns, index) ==
    LET f == SelectSeq(ns, LAMBDA n : j[n].isSelected /\ j[n].selectedIndex = index)
    IN  IF f = <<>> THEN 0 ELSE Head(f)
selectedNode(index) == selectedNodeOf(joiner, nodes, index)
selectedBeams == SelectSeq(beams, LAMBDA b : beam[b].isSelected)

----------------------------------------------------------------------------
(* Status texts.                                                           *)

MsgNone == "No object selected"
MsgMove == "Selected node for movement"
MsgEnd == "Select an end node (Ctrl-click)"
MsgConnection == "Connection established"
MsgExactly2 == "Please Ctrl-click to select exactly 2 nodes to connect."
MsgMultiMode == "Multiselect mode (Ctrl-click)"
MsgConnected == "Connected nodes"
\* innerHTML written by NodeManager.updateInfoPanel of the "selection" snapshot
MsgSelectedNode == "<strong>Selected Node</strong>"
MsgSelectedBeam == "<strong>Selected Beam</strong>"

----------------------------------------------------------------------------
(* Beam objects and the structure manager.                                 *)

\* new Beam(startNode, endNode) followed by beam.add(scene), whose update()
\* sets length; 0 stands for an undefined endpoint.
NewBeam(j, a, b) ==
    [parents |-> <<a, b>>, length |-> distanceTo(j[a].position, j[b].position),
     isSelected |-> FALSE, mesh |-> TRUE]

\* The Beam constructor reads startNode.radius and endNode.radius.
BeamConstructorThrows(a, b) == a = 0 \/ b = 0

\* The beams NodeManager.deleteNode removes with the node.
beamsToRemove(bm, bs, n) ==
    SelectSeq(bs, LAMBDA b : bm[b].parents[1] = n \/ bm[b].parents[2] = n)

\* No node is under analysis.
NoPhys ==
    [n |-> <<>>, dt |-> 0, sets |-> 0, run |-> 0, eq |-> "none", out |-> [op |-> "none"]]

----------------------------------------------------------------------------
Init ==
    /\ variant \in Variants
    /\ joiner = <<>>
    /\ beam = <<>>
    /\ nodes = <<>>
    /\ beams = <<>>
    /\ gizmo = 0
    /\ isGizmoIntersecting = FALSE
    /\ isMultiSelect = FALSE
    /\ isDragSelecting = FALSE
    /\ selectedObjects = <<>>
    /\ linkDisabled = (variant = "selection")
    /\ deleteDisabled = (variant = "selection")
    /\ infoPanel = ""
    /\ err = "none"
    /\ last = [op |-> "init", arg |-> 0, pair |-> <<0, 0>>]
    /\ phys = NoPhys

\* What a pointer event picked: <<"Joiner", n>>, <<"Beam", b>> or nothing.
NoTarget == <<"none", 0>>

\* History of the two-click pairing gesture: <<A, 0>> after a plain click on
\* node A while nothing was selected, <<A, B>> after a following modifier
\* click on another node B; key events in between keep it, anything else
\* clears it.
NextPair(op, arg) ==
    IF op \in {"keyDown", "keyUp"} THEN last.pair
    ELSE IF op = "click" /\ arg[1] = "Joiner" /\ ~isGizmoIntersecting
    THEN IF ~isMultiSelect
         THEN (IF ~isAnySelected THEN <<arg[2], 0>> ELSE <<0, 0>>)
         ELSE (IF last.pair[1] # 0 /\ last.pair[2] = 0 /\ arg[2] # last.pair[1]
               THEN <<last.pair[1], arg[2]>> ELSE <<0, 0>>)
    ELSE <<0, 0>>

\* Records the handler that ran; the handlers of the user interface leave
\* the motion channels alone.
Step(op, arg) ==
    /\ last' = [op |-> op, arg |-> arg, pair |-> NextPair(op, arg)]
    /\ UNCHANGED phys

\* addNode / Page.addNodeButtonClickEventHandler / World.addNode:
\* NodeManager.createNode(position) at a random position.
addNode ==
    /\ Len(joiner) < MaxNodes
    /\ joiner' = Append(joiner, NewJoiner(Place(Len(joiner) + 1)))
    /\ nodes' = Append(nodes, Len(joiner) + 1)
    /\ err' = "none"
    /\ Step("addNode", Len(joiner) + 1)
    /\ UNCHANGED <<variant, beam, beams, gizmo, isGizmoIntersecting, isMultiSelect,
                   isDragSelecting, selectedObjects, linkDisabled, deleteDisabled,
                   infoPanel>>

----------------------------------------------------------------------------
(* "page" snapshot: Page handlers of src/src/world/page.js.                *)

\* selectedNodes.forEach(node => node.select(controls, allowMultiple)) over
\* the array the getter returned before the loop.
RECURSIVE SelectEach(_, _, _)
SelectEach(st, seq, allowMultiple) ==
    IF seq = <<>> THEN st
    ELSE SelectEach(JoinerSelect(st, Head(seq), allowMultiple), Tail(seq), allowMultiple)

\* NodeManager.updateInfoPanel (page): reads selectedNode(1).force when
\* exactly one node is selected.
PageInfoPanelThrows(j) ==
    Len(selectedNodesOf(j, nodes)) = 1 /\ selectedNodeOf(j, nodes, 1) = 0

\* Page.mouseClickEventHandler; target is the picked node, 0 when the ray
\* hits no node (empty space or a beam).
PageClick(target) ==
    /\ variant = "page"
    /\ Step("click", IF target = 0 THEN NoTarget ELSE <<"Joiner", target>>)
    /\ UNCHANGED <<variant, beam, beams, nodes, isMultiSelect, isDragSelecting,
                   selectedObjects>>
    /\ IF isGizmoIntersecting
       THEN /\ isGizmoIntersecting' = FALSE
            /\ err' = "none"
            /\ UNCHANGED <<joiner, gizmo, infoPanel, linkDisabled, deleteDisabled>>
       ELSE LET st0 == [j |-> joiner, g |-> gizmo]
                allow == isMultiSelect /\ target # 0
                st1 == SelectEach(st0, selectedNodes, allow)
                st2 == IF target = 0 THEN st1 ELSE JoinerSelect(st1, target, allow)
                n == Len(selectedNodesOf(st2.j, nodes))
            IN  /\ joiner' = st2.j
                /\ gizmo' = st2.g
                /\ infoPanel' =
                      IF target = 0 THEN MsgNone
                      ELSE IF allow
                           THEN (IF n = 1 THEN MsgEnd
                                 ELSE IF n = 2 THEN MsgConnection ELSE MsgExactly2)
                           ELSE (IF n = 1 THEN MsgMove ELSE MsgNone)
                /\ deleteDisabled' = (n # 1)
                /\ linkDisabled' = (n # 2)
                /\ err' = IF PageInfoPanelThrows(st2.j) THEN "TypeError" ELSE "none"
                /\ UNCHANGED isGizmoIntersecting

\* transformControls "mouseDown" listener of World.addTransformControls:
\* the pointer went down on the attached gizmo.
GizmoMouseDown ==
    /\ variant = "page"
    /\ gizmo # 0
    /\ ~isGizmoIntersecting
    /\ isGizmoIntersecting' = TRUE
    /\ err' = "none"
    /\ Step("gizmoMouseDown", gizmo)
    /\ UNCHANGED <<variant, joiner, beam, nodes, beams, gizmo, isMultiSelect,
                   isDragSelecting, selectedObjects, linkDisabled, deleteDisabled,
                   infoPanel>>

\* Page.documentKeyDownEventHandler for the ControlLeft key.
PageKeyDown ==
    /\ variant = "page"
    /\ isMultiSelect' = TRUE
    /\ infoPanel' = IF isOnly1NodeSelected THEN MsgEnd ELSE MsgMultiMode
    /\ err' = "none"
    /\ Step("keyDown", 0)
    /\ UNCHANGED <<variant, joiner, beam, nodes, beams, gizmo, isGizmoIntersecting,
                   isDragSelecting, selectedObjects, linkDisabled, deleteDisabled>>

\* Page.documentKeyUpEventHandler for the ControlLeft key.
PageKeyUp ==
    /\ variant = "page"
    /\ isMultiSelect
    /\ infoPanel' = IF isAnySelected THEN MsgMove ELSE MsgNone
    /\ isMultiSelect' = FALSE
    /\ err' = "none"
    /\ Step("keyUp", 0)
    /\ UNCHANGED <<variant, joiner, beam, nodes, beams, gizmo, isGizmoIntersecting,
                   isDragSelecting, selectedObjects, linkDisabled, deleteDisabled>>

\* Page.deleteSelectedButtonClickEventHandler: calls Joiner.delete of
\* src/src/models/node.js on selectedNode(1).  That method uses the
\* undeclared identifier `node` (scene.remove(node)) before it touches the
\* mesh, so it never returns; the node stays in `nodes`.
PageDeleteSelected ==
    /\ variant = "page"
    /\ ~deleteDisabled
    /\ err' = IF ~isAnySelected THEN "none"
              ELSE IF selectedNode(1) = 0 THEN "TypeError" ELSE "ReferenceError"
    /\ Step("deleteSelected", selectedNode(1))
    /\ UNCHANGED <<variant, joiner, beam, nodes, beams, gizmo, isGizmoIntersecting,
                   isMultiSelect, isDragSelecting, selectedObjects, linkDisabled,
                   deleteDisabled, infoPanel>>

\* Page.addBeamButtonClickEventHandler
PageAddBeam ==
    /\ variant = "page"
    /\ ~linkDisabled
    /\ Len(beam) < MaxBeams
    /\ Step("link", 0)
    /\ UNCHANGED <<variant, joiner, nodes, gizmo, isGizmoIntersecting, isMultiSelect,
                   isDragSelecting, selectedObjects, linkDisabled, deleteDisabled>>
    /\ IF isOnly2NodesSelected
       THEN IF BeamConstructorThrows(selectedNode(1), selectedNode(2))
            THEN /\ err' = "TypeError"
                 /\ UNCHANGED <<beam, beams, infoPanel>>
            ELSE /\ beam' = Append(beam, NewBeam(joiner, selectedNode(1), selectedNode(2)))
                 /\ beams' = Append(beams, Len(beam) + 1)
                 /\ infoPanel' = MsgConnected
                 /\ err' = "none"
       ELSE /\ infoPanel' = MsgExactly2
            /\ err' = "none"
            /\ UNCHANGED <<beam, beams>>

----------------------------------------------------------------------------
(* Deleting objects.  The operations work on a record holding the heaps,   *)
(* the collections, the gizmo, the selection list and the exception raised *)
(* so far; once err is set the rest of the handler does not run.           *)

Cur == [v |-> variant, j |-> joiner, g |-> gizmo, bm |-> beam, ns |-> nodes,
        bs |-> beams, so |-> selectedObjects, err |-> "none"]

\* Joiner.delete of src/src/models/node.js: scene.remove(node) names an
\* identifier that is declared nowhere, before the mesh is touched.
PageJoinerDelete(st, n) ==
    IF n = 0 THEN [st EXCEPT !.err = "TypeError"]
    ELSE [st EXCEPT !.err = "ReferenceError"]

\* Joiner.delete of the "selection" snapshot: reads this.mesh.geometry and
\* ends with this.mesh = null.
SelJoinerDelete(st, n) ==
    IF n = 0 THEN [st EXCEPT !.err = "TypeError"]
    ELSE IF ~st.j[n].mesh THEN [st EXCEPT !.err = "TypeError"]
    ELSE [st EXCEPT !.j[n].mesh = FALSE]

\* Node.delete of the TypeScript snapshot: keeps this.mesh.
WorldNodeDelete(st, n) ==
    IF n = 0 THEN [st EXCEPT !.err = "TypeError"] ELSE st

\* node.delete(scene) as NodeManager.deleteNode calls it
JoinerDelete(st, n) ==
    CASE st.v = "page" -> PageJoinerDelete(st, n)
      [] st.v = "selection" -> SelJoinerDelete(st, n)
      [] OTHER -> WorldNodeDelete(st, n)

\* Beam.delete of the JavaScript snapshots: reads this.mesh.geometry and ends
\* with this.mesh = null; the TypeScript Beam keeps its mesh.
BeamDelete(st, b) ==
    IF st.v = "world" THEN st
    ELSE IF ~st.bm[b].mesh THEN [st EXCEPT !.err = "TypeError"]
    ELSE [st EXCEPT !.bm[b].mesh = FALSE]

\* NodeManager.deleteBeam(beam)
deleteBeam(st, b) ==
    LET s1 == BeamDelete(st, b)
    IN  IF s1.err # "none" THEN s1 ELSE [s1 EXCEPT !.bs = Remove(@, b)]

\* for (const beam of beamsToRemove) this.deleteBeam(beam)
RECURSIVE deleteBeamsOf(_, _)
deleteBeamsOf(st, seq) ==
    IF seq = <<>> \/ st.err # "none" THEN st
    ELSE deleteBeamsOf(deleteBeam(st, Head(seq)), Tail(seq))

\* deleteNode without the loop over beamsToRemove
deleteNodeKeepingBeams(st, n) ==
    LET s1 == JoinerDelete(st, n)
    IN  IF s1.err # "none" THEN s1 ELSE [s1 EXCEPT !.ns = Remove(@, n)]

\* NodeManager.deleteNode(node)
deleteNode(st, n) ==
    LET s1 == JoinerDelete(st, n)
        s2 == [s1 EXCEPT !.ns = Remove(@, n)]
    IN  IF s1.err # "none" THEN s1
        ELSE deleteBeamsOf(s2, beamsToRemove(s2.bm, s2.bs, n))

\* NodeManager.createBeam(startNode, endNode)
createBeam(st, a, b) ==
    IF BeamConstructorThrows(a, b) THEN [st EXCEPT !.err = "TypeError"]
    ELSE [st EXCEPT !.bm = Append(@, NewBeam(st.j, a, b)),
                    !.bs = Append(@, Len(st.bm) + 1)]

----------------------------------------------------------------------------
(* "selection" snapshot: SelectionManager (src/unnamed/part_009) and the   *)
(* button handlers of src/new space code/src/main.js.                      *)

\* SelectionManager.selectNode
selectNode(st, n) ==
    IF ~st.j[n].isSelected
    THEN [JoinerSelect(st, n, TRUE) EXCEPT !.so = Append(@, <<"Joiner", n>>)]
    ELSE st

\* SelectionManager.deselectNode
deselectNode(st, n) ==
    IF st.j[n].isSelected
    THEN [JoinerUnselect(st, n) EXCEPT !.so = Remove(@, <<"Joiner", n>>)]
    ELSE st

\* SelectionManager.selectBeam (Beam.select)
selectBeam(st, b) ==
    IF ~st.bm[b].isSelected
    THEN [st EXCEPT !.bm[b].isSelected = TRUE, !.so = Append(@, <<"Beam", b>>)]
    ELSE st

\* SelectionManager.deselectBeam (Beam.unselect)
deselectBeam(st, b) ==
    IF st.bm[b].isSelected
    THEN [st EXCEPT !.bm[b].isSelected = FALSE, !.so = Remove(@, <<"Beam", b>>)]
    ELSE st

RECURSIVE deselectNodes(_, _)
deselectNodes(st, seq) ==
    IF seq = <<>> THEN st ELSE deselectNodes(deselectNode(st, Head(seq)), Tail(seq))

RECURSIVE deselectBeams(_, _)
deselectBeams(st, seq) ==
    IF seq = <<>> THEN st ELSE deselectBeams(deselectBeam(st, Head(seq)), Tail(seq))

\* deselectAllNodes(); deselectAllBeams()
deselectAll(st) == deselectBeams(deselectNodes(st, st.ns), st.bs)

\* The objects a pointer event of this snapshot can pick
Targets ==
    {NoTarget} \cup {<<"Joiner", n>> : n \in Range(nodes)}
               \cup {<<"Beam", b>> : b \in Range(beams)}

\* SelectionManager.handleSingleClick up to the info-panel update
handleSingleClick(st, target, multi) ==
    LET k == target[1]
        x == target[2]
    IN  IF k = "Joiner"
        THEN IF multi
             THEN (IF st.j[x].isSelected THEN deselectNode(st, x) ELSE selectNode(st, x))
             ELSE selectNode(deselectAll(st), x)
        ELSE IF k = "Beam"
        THEN IF multi
             THEN (IF st.bm[x].isSelected THEN deselectBeam(st, x) ELSE selectBeam(st, x))
             ELSE selectBeam(deselectAll(st), x)
        ELSE IF ~multi THEN deselectAll(st) ELSE st

\* The drag rectangle cuts an interval out of the line the nodes lie on.
\* Coordinates are doubled, so that beam midpoints are integers; nodes and
\* midpoints then sit on even numbers and the box edges fall on odd ones.
BoxEdges == {2 * c + 1 : c \in 0..(2^MaxNodes - 1)}
NodeCoord(j, n) == 2 * j[n].position[1]
BeamCoord(j, bm, b) == j[bm[b].parents[1]].position[1] + j[bm[b].parents[2]].position[1]
InBox(c, lo, hi) == lo <= c /\ c <= hi

RECURSIVE selectNodesIn(_, _, _, _)
selectNodesIn(st, seq, lo, hi) ==
    IF seq = <<>> THEN st
    ELSE selectNodesIn(IF InBox(NodeCoord(st.j, Head(seq)), lo, hi)
                       THEN selectNode(st, Head(seq)) ELSE st,
                       Tail(seq), lo, hi)

RECURSIVE selectBeamsIn(_, _, _, _)
selectBeamsIn(st, seq, lo, hi) ==
    IF seq = <<>> THEN st
    ELSE selectBeamsIn(IF InBox(BeamCoord(st.j, st.bm, Head(seq)), lo, hi)
                       THEN selectBeam(st, Head(seq)) ELSE st,
                       Tail(seq), lo, hi)

\* SelectionManager.handleDragSelection up to the info-panel update
handleDragSelection(st, lo, hi, multi) ==
    LET s0 == IF ~multi THEN deselectAll(st) ELSE st
    IN  selectBeamsIn(selectNodesIn(s0, s0.ns, lo, hi), s0.bs, lo, hi)

\* NodeManager.updateInfoPanel ("selection"): the text it writes
InfoText(st) ==
    IF Len(selectedNodesOf(st.j, st.ns)) = 1 THEN MsgSelectedNode
    ELSE IF Len(SelectSeq(st.bs, LAMBDA b : st.bm[b].isSelected)) = 1 THEN MsgSelectedBeam
    ELSE MsgNone

\* It reads selectedNode(1).force when exactly one node is selected.
InfoPanelThrows(st) ==
    Len(selectedNodesOf(st.j, st.ns)) = 1 /\ selectedNodeOf(st.j, st.ns, 1) = 0

\* Writes the result of a handler of the "selection" snapshot that ends with
\* nodeManager.updateInfoPanel().
SelCommit(st) ==
    /\ joiner' = st.j
    /\ gizmo' = st.g
    /\ beam' = st.bm
    /\ nodes' = st.ns
    /\ beams' = st.bs
    /\ selectedObjects' = st.so
    /\ IF st.err # "none"
       THEN /\ err' = st.err
            /\ UNCHANGED <<linkDisabled, deleteDisabled, infoPanel>>
       ELSE /\ deleteDisabled' = (Len(selectedNodesOf(st.j, st.ns)) # 1)
            /\ linkDisabled' = (Len(selectedNodesOf(st.j, st.ns)) # 2)
            /\ IF InfoPanelThrows(st)
               THEN err' = "TypeError" /\ UNCHANGED infoPanel
               ELSE err' = "none" /\ infoPanel' = InfoText(st)

\* SelectionManager.onKeyDown, Control key
SelKeyDown ==
    /\ variant = "selection"
    /\ isMultiSelect' = TRUE
    /\ err' = "none"
    /\ Step("keyDown", 0)
    /\ UNCHANGED <<variant, joiner, beam, nodes, beams, gizmo, isGizmoIntersecting,
                   isDragSelecting, selectedObjects, linkDisabled, deleteDisabled,
                   infoPanel>>

\* SelectionManager.onKeyUp, Control key
SelKeyUp ==
    /\ variant = "selection"
    /\ isMultiSelect
    /\ isMultiSelect' = FALSE
    /\ err' = "none"
    /\ Step("keyUp", 0)
    /\ UNCHANGED <<variant, joiner, beam, nodes, beams, gizmo, isGizmoIntersecting,
                   isDragSelecting, selectedObjects, linkDisabled, deleteDisabled,
                   infoPanel>>

\* SelectionManager.onMouseDown (left button; the gizmo is not being dragged)
SelMouseDown(target) ==
    /\ variant = "selection"
    /\ UNCHANGED <<variant, isGizmoIntersecting, isMultiSelect>>
    /\ IF ~isMultiSelect
       THEN /\ isDragSelecting' = TRUE
            /\ err' = "none"
            /\ Step("mouseDown", NoTarget)
            /\ UNCHANGED <<joiner, beam, nodes, beams, gizmo, selectedObjects,
                           linkDisabled, deleteDisabled, infoPanel>>
       ELSE /\ SelCommit(handleSingleClick(Cur, target, TRUE))
            /\ Step("click", target)
            /\ UNCHANGED isDragSelecting

\* SelectionManager.onMouseUp when the pointer moved less than 5 pixels
SelMouseUpClick(target) ==
    /\ variant = "selection"
    /\ isDragSelecting
    /\ SelCommit(handleSingleClick(Cur, target, isMultiSelect))
    /\ isDragSelecting' = (err' # "none")
    /\ Step("click", target)
    /\ UNCHANGED <<variant, isGizmoIntersecting, isMultiSelect>>

\* SelectionManager.onMouseUp after a drag
SelMouseUpDrag(lo, hi) ==
    /\ variant = "selection"
    /\ isDragSelecting
    /\ SelCommit(handleDragSelection(Cur, lo, hi, isMultiSelect))
    /\ isDragSelecting' = (err' # "none")
    /\ Step("drag", 0)
    /\ UNCHANGED <<variant, isGizmoIntersecting, isMultiSelect>>

\* objectsToDelete.forEach(...) of deleteSelectedObjects
RECURSIVE deleteObjects(_, _)
deleteObjects(st, seq) ==
    IF seq = <<>> \/ st.err # "none" THEN st
    ELSE deleteObjects(IF Head(seq)[1] = "Joiner" THEN deleteNode(st, Head(seq)[2])
                       ELSE deleteBeam(st, Head(seq)[2]),
                       Tail(seq))

\* SelectionManager.onKeyDown, Delete key: deleteSelectedObjects
SelDeleteKey ==
    /\ variant = "selection"
    /\ Len(selectedObjects) > 0
    /\ LET s1 == deleteObjects(Cur, selectedObjects)
       IN  SelCommit(IF s1.err # "none" THEN s1 ELSE [s1 EXCEPT !.so = <<>>])
    /\ Step("deleteKey", 0)
    /\ UNCHANGED <<variant, isGizmoIntersecting, isMultiSelect, isDragSelecting>>

\* Writes the result of a button handler of main.js (no info-panel update).
ButtonCommit(st) ==
    /\ joiner' = st.j
    /\ gizmo' = st.g
    /\ beam' = st.bm
    /\ nodes' = st.ns
    /\ beams' = st.bs
    /\ selectedObjects' = st.so
    /\ err' = st.err

\* linkNodes of main.js
linkNodes ==
    /\ variant = "selection"
    /\ ~linkDisabled
    /\ Len(beam) < MaxBeams
    /\ LET node1 == selectedNode(1)
           node2 == selectedNode(2)
           s1 == createBeam(Cur, node1, node2)
       IN  ButtonCommit(IF ~isOnly2NodesSelected THEN Cur
                        ELSE IF s1.err # "none" THEN s1
                        ELSE JoinerUnselect(JoinerUnselect(s1, node1), node2))
    /\ Step("link", 0)
    /\ UNCHANGED <<variant, isGizmoIntersecting, isMultiSelect, isDragSelecting,
                   linkDisabled, deleteDisabled, infoPanel>>

\* deleteSelected of main.js
deleteSelected ==
    /\ variant = "selection"
    /\ ~deleteDisabled
    /\ ButtonCommit(IF isOnly1NodeSelected THEN deleteNode(Cur, selectedNode(1))
                    ELSE IF Len(selectedBeams) = 1 THEN deleteBeam(Cur, selectedBeams[1])
                    ELSE Cur)
    /\ Step("deleteSelected", IF isOnly1NodeSelected THEN selectedNode(1) ELSE 0)
    /\ UNCHANGED <<variant, isGizmoIntersecting, isMultiSelect, isDragSelecting,
                   linkDisabled, deleteDisabled, infoPanel>>

----------------------------------------------------------------------------
(* "world" snapshot: src/emechnical/src/world/World.ts over the            *)
(* EngineeringManager and the TypeScript Node.                             *)

\* Utilities.keyState.ControlLeft is read by this snapshot and written by
\* none of its handlers: the environment changes it between events.
WorldKeyState(b) ==
    /\ variant = "world"
    /\ isMultiSelect # b
    /\ isMultiSelect' = b
    /\ err' = "none"
    /\ Step(IF b THEN "keyDown" ELSE "keyUp", 0)
    /\ UNCHANGED <<variant, joiner, beam, nodes, beams, gizmo, isGizmoIntersecting,
                   isDragSelecting, selectedObjects, linkDisabled, deleteDisabled,
                   infoPanel>>

\* selectedNodes.forEach(node => node.select(transformControls, false))
RECURSIVE NodeSelectEach(_, _, _)
NodeSelectEach(st, seq, ctrl) ==
    IF seq = <<>> THEN st
    ELSE NodeSelectEach(NodeSelect(st, Head(seq), FALSE, ctrl), Tail(seq), ctrl)

\* World.unselectAllNodes
unselectAllNodes(st, ctrl) ==
    [NodeSelectEach(st, selectedNodesOf(st.j, st.ns), ctrl) EXCEPT !.info = MsgNone]

\* World.handleMultiSelectNode
handleMultiSelectNode(st, clickedNode, ctrl) ==
    LET n == Len(selectedNodesOf(st.j, st.ns))
    IN  IF n = 0 \/ n = 1
        THEN [NodeSelect(st, clickedNode, TRUE, ctrl)
                 EXCEPT !.info = IF n = 0 THEN MsgEnd ELSE MsgConnection]
        ELSE IF n = 2
        THEN [NodeSelect(unselectAllNodes(st, ctrl), clickedNode, TRUE, ctrl)
                 EXCEPT !.info = MsgEnd]
        ELSE [unselectAllNodes(st, ctrl) EXCEPT !.info = MsgExactly2]

\* World.handleSingleSelectNode
handleSingleSelectNode(st, clickedNode, ctrl) ==
    LET s1 == NodeSelect(unselectAllNodes(st, ctrl), clickedNode, FALSE, ctrl)
    IN  [s1 EXCEPT !.info = IF Len(selectedNodesOf(s1.j, s1.ns)) = 1
                             THEN MsgMove ELSE MsgNone]

\* Writes the result of a handler of the "world" snapshot.
WorldCommit(st) ==
    /\ joiner' = st.j
    /\ gizmo' = st.g
    /\ beam' = st.bm
    /\ nodes' = st.ns
    /\ beams' = st.bs
    /\ infoPanel' = st.info
    /\ err' = st.err
    /\ UNCHANGED <<variant, isGizmoIntersecting, isMultiSelect, isDragSelecting,
                   selectedObjects, linkDisabled, deleteDisabled>>

WorldCur == [v |-> variant, j |-> joiner, g |-> gizmo, bm |-> beam, ns |-> nodes,
             bs |-> beams, so |-> selectedObjects, err |-> "none",
             info |-> infoPanel]

\* World.mouseClickEventHandler
mouseClickEventHandler(target) ==
    /\ variant = "world"
    /\ WorldCommit(IF target # 0
                   THEN IF isMultiSelect
                        THEN handleMultiSelectNode(WorldCur, target, isMultiSelect)
                        ELSE handleSingleSelectNode(WorldCur, target, isMultiSelect)
                   ELSE unselectAllNodes(WorldCur, isMultiSelect))
    /\ Step("click", IF target = 0 THEN NoTarget ELSE <<"Joiner", target>>)

\* World.deleteSelected
WorldDeleteSelected ==
    /\ variant = "world"
    /\ WorldCommit(IF selectedNode(1) # 0
                   THEN [deleteNode(WorldCur, selectedNode(1)) EXCEPT !.info = MsgNone]
                   ELSE WorldCur)
    /\ Step("deleteSelected", selectedNode(1))

\* linkSelected without the test of selectedNodes.length
linkSelectedUnchecked ==
    /\ variant = "world"
    /\ Len(beam) < MaxBeams
    /\ WorldCommit(IF Len(selectedNodes) >= 1
                   THEN [createBeam(WorldCur, selectedNodes[1],
                                    selectedNodes[Len(selectedNodes)])
                            EXCEPT !.info = MsgConnected]
                   ELSE [WorldCur EXCEPT !.info = MsgExactly2])
    /\ Step("link", 0)

\* World.linkSelected
linkSelected ==
    /\ variant = "world"
    /\ Len(beam) < MaxBeams
    /\ WorldCommit(IF Len(selectedNodes) = 2
                   THEN [createBeam(WorldCur, selectedNodes[1], selectedNodes[2])
                            EXCEPT !.info = MsgConnected]
                   ELSE [WorldCur EXCEPT !.info = MsgExactly2])
    /\ Step("link", 0)

----------------------------------------------------------------------------
(* The managers called directly, with any arguments.                       *)

ApiCommit(st) ==
    /\ joiner' = st.j
    /\ gizmo' = st.g
    /\ beam' = st.bm
    /\ nodes' = st.ns
    /\ beams' = st.bs
    /\ err' = st.err
    /\ UNCHANGED <<variant, isGizmoIntersecting, isMultiSelect, isDragSelecting,
                   selectedObjects, linkDisabled, deleteDisabled, infoPanel>>

\* nodeManager.createBeam(a, b)
ApiCreateBeam(a, b) ==
    /\ Len(beam) < MaxApiBeams
    /\ ApiCommit(createBeam(Cur, a, b))
    /\ Step("createBeam", <<a, b>>)

\* nodeManager.deleteNode(n)
ApiDeleteNode(n) ==
    /\ ApiCommit(deleteNode(Cur, n))
    /\ Step("deleteNode", n)

\* nodeManager.deleteBeam(b)
ApiDeleteBeam(b) ==
    /\ ApiCommit(deleteBeam(Cur, b))
    /\ Step("deleteBeam", b)

Next ==
    \/ addNode
    \/ \E t \in {0} \cup Range(nodes) : PageClick(t)
    \/ GizmoMouseDown
    \/ PageKeyDown
    \/ PageKeyUp
    \/ PageDeleteSelected
    \/ PageAddBeam
    \/ SelKeyDown
    \/ SelKeyUp
    \/ \E t \in Targets : SelMouseDown(t)
    \/ \E t \in Targets : SelMouseUpClick(t)
    \/ \E lo \in BoxEdges : \E hi \in {e \in BoxEdges : e > lo} : SelMouseUpDrag(lo, hi)
    \/ SelDeleteKey
    \/ linkNodes
    \/ deleteSelected
    \/ \E b \in BOOLEAN : WorldKeyState(b)
    \/ \E t \in {0} \cup Range(nodes) : mouseClickEventHandler(t)
    \/ WorldDeleteSelected
    \/ linkSelected

Spec == Init /\ [][Next]_vars

NextApi ==
    \/ addNode
    \/ \E a \in Range(nodes) : \E b \in Range(nodes) : ApiCreateBeam(a, b)
    \/ \E n \in Range(nodes) : ApiDeleteNode(n)
    \/ \E b \in Range(beams) : ApiDeleteBeam(b)

SpecApi == Init /\ [][NextApi]_vars

\* node.select(transformControls, allowMultiple) on a Joiner
ApiSelect(n, allowMultiple) ==
    /\ variant # "world"
    /\ ApiCommit(JoinerSelect(Cur, n, allowMultiple))
    /\ Step("select", <<n, allowMultiple>>)

\* node.unselect(transformControls) on a Joiner
ApiUnselect(n) ==
    /\ variant # "world"
    /\ ApiCommit(JoinerUnselect(Cur, n))
    /\ Step("unselect", n)

NextJoiner ==
    \/ addNode
    \/ \E n \in Range(nodes) : \E allowMultiple \in BOOLEAN : ApiSelect(n, allowMultiple)
    \/ \E n \in Range(nodes) : ApiUnselect(n)
    \/ \E n \in Range(nodes) : ApiDeleteNode(n)

SpecJoiner == Init /\ [][NextJoiner]_vars

----------------------------------------------------------------------------
(* Motion of a node: Joiner.setForce and Joiner.dampenMotion of the        *)
(* "selection" snapshot.  Numbers are fixed-point: 1.0 is Quantum units,   *)
(* and a division rounds toward zero.                                      *)

Quantum == 10000
\* 0.001, the magnitude under which dampenMotion clamps the velocity
ClampBelow == 10
\* at most this many setForce calls / dampenMotion calls are followed
MaxSetForce == 2
MaxDampen == 90

Abs(a) == IF a < 0 THEN -a ELSE a
Quot(a, b) == IF a < 0 THEN -((-a) \div b) ELSE a \div b
Zero3 == <<0, 0, 0>>
VAdd(a, b) == <<a[1] + b[1], a[2] + b[2], a[3] + b[3]>>
VSub(a, b) == <<a[1] - b[1], a[2] - b[2], a[3] - b[3]>>
VScale(a, k) == <<a[1] * k, a[2] * k, a[3] * k>>
VQuot(a, k) == <<Quot(a[1], k), Quot(a[2], k), Quot(a[3], k)>>
LengthSq(a) == a[1] * a[1] + a[2] * a[2] + a[3] * a[3]
\* Vector3.lerp(target, num / den)
Lerp(a, target, num, den) == VAdd(a, VQuot(VScale(VSub(target, a), num), den))

\* The force vectors the inputs are drawn from.
ForceVectors ==
    {Zero3, <<20, 0, 0>>, <<-20, 0, 0>>, <<200, 0, 0>>, <<-200, 0, 0>>, <<0, 200, 0>>}
Masses == {1, 2}
\* Utilities.simulationTime, a configured positive scalar
SimulationTimes == {1, 2}

NewMotion(pos, vel, m, fixed) ==
    [position |-> pos, force |-> Zero3, acceleration |-> Zero3, velocity |-> vel,
     mass |-> m, isFixed |-> fixed]

\* setForce that replaces acceleration and velocity instead of adding to them
setForceReplacing(nd, v, dt) ==
    IF LengthSq(v) = 0 THEN [nd EXCEPT !.force = v]
    ELSE [nd EXCEPT !.force = v,
                    !.acceleration = VQuot(v, nd.mass),
                    !.velocity = VScale(VQuot(v, nd.mass), dt)]

\* Joiner.setForce(motionVector) on a motion record
setForce(nd, v, dt) ==
    LET acc == VAdd(nd.acceleration, VQuot(v, nd.mass))
    IN  IF LengthSq(v) = 0 THEN [nd EXCEPT !.force = v]
        ELSE [nd EXCEPT !.force = v,
                        !.acceleration = acc,
                        !.velocity = VAdd(nd.velocity, VScale(acc, dt))]

\* Joiner.dampenMotion(deltaTime), deltaTime = num / den
dampenBy(nd, num, den) ==
    LET frictionAcc == VQuot(VScale(VScale(nd.velocity, -1), num), den)
        vel == VAdd(nd.velocity, frictionAcc)
        acc == Lerp(nd.acceleration, frictionAcc, num, 2 * den)
    IN  IF LengthSq(nd.force) # 0 THEN nd
        ELSE IF LengthSq(vel) < ClampBelow * ClampBelow
        THEN [nd EXCEPT !.velocity = Zero3,
                        !.acceleration = Lerp(acc, Zero3, num, 10 * den)]
        ELSE [nd EXCEPT !.velocity = vel, !.acceleration = acc]

\* dampenMotion without the clamp of a small velocity
dampenMotionUnclamped(nd, tenths) ==
    LET frictionAcc == VQuot(VScale(VScale(nd.velocity, -1), tenths), 10)
    IN  IF LengthSq(nd.force) # 0 THEN nd
        ELSE [nd EXCEPT !.velocity = VAdd(nd.velocity, frictionAcc),
                        !.acceleration = Lerp(nd.acceleration, frictionAcc, tenths, 20)]

\* Joiner.dampenMotion(deltaTime), deltaTime = tenths / 10
dampenMotion(nd, tenths) == dampenBy(nd, tenths, 10)

UiUnchanged ==
    UNCHANGED <<variant, joiner, beam, nodes, beams, gizmo, isGizmoIntersecting,
                isMultiSelect, isDragSelecting, selectedObjects, linkDisabled,
                deleteDisabled, infoPanel>>

\* One node, at rest or moving at (1, 0, 0), with no force on it.
InitMotion ==
    /\ variant = "selection"
    /\ joiner = <<>>
    /\ beam = <<>>
    /\ nodes = <<>>
    /\ beams = <<>>
    /\ gizmo = 0
    /\ isGizmoIntersecting = FALSE
    /\ isMultiSelect = FALSE
    /\ isDragSelecting = FALSE
    /\ selectedObjects = <<>>
    /\ linkDisabled = TRUE
    /\ deleteDisabled = TRUE
    /\ infoPanel = ""
    /\ err = "none"
    /\ last = [op |-> "init", arg |-> 0, pair |-> <<0, 0>>]
    /\ \E vel \in {Zero3, <<Quantum, 0, 0>>} : \E m \in Masses :
       \E dt \in SimulationTimes :
          phys = [n |-> <<NewMotion(Zero3, vel, m, FALSE)>>, dt |-> dt,
                  sets |-> 0, run |-> IF vel = Zero3 THEN -1 ELSE 0,
                  eq |-> "none", out |-> [op |-> "none"]]

\* node.setForce(v); phys.run counts the dampenMotion calls made since the
\* start on a node that started at (1, 0, 0) and never had a force set,
\* -1 when that is not the case.
MotionSetForce(v) ==
    /\ phys.sets < MaxSetForce
    /\ phys' = [phys EXCEPT !.n[1] = setForce(phys.n[1], v, phys.dt),
                            !.sets = @ + 1, !.run = -1]
    /\ last' = [op |-> "setForce", arg |-> v, pair |-> <<0, 0>>]
    /\ err' = "none"
    /\ UiUnchanged

\* node.dampenMotion(0.1)
MotionDampen ==
    /\ phys.run < MaxDampen
    /\ phys' = [phys EXCEPT !.n[1] = dampenMotion(phys.n[1], 1),
                            !.run = IF @ < 0 THEN @ ELSE @ + 1]
    /\ last' = [op |-> "dampenMotion", arg |-> 1, pair |-> <<0, 0>>]
    /\ err' = "none"
    /\ UiUnchanged

NextMotion ==
    \/ \E v \in ForceVectors : MotionSetForce(v)
    \/ MotionDampen

SpecMotion == InitMotion /\ [][NextMotion]_vars

-----------------------------------------------------------------------------
(* Statics: beam forces, reaction forces and equilibrium.  Forces use the   *)
(* same Quantum units per 1.0 as the motion above; positions are whole      *)
(* units on the x axis, so that directions normalise exactly.               *)

MaxStaticNodes == 3
EquilibriumTolerance == 100
StaticForces == {<<600, 0, 0>>, <<-600, 0, 0>>, <<0, 600, 0>>, <<60, 0, 0>>}

Dot(a, b) == a[1] * b[1] + a[2] * b[2] + a[3] * b[3]
Cross(a, b) ==
    <<a[2] * b[3] - a[3] * b[2], a[3] * b[1] - a[1] * b[3], a[1] * b[2] - a[2] * b[1]>>
\* Vector3.normalize(): divideScalar(length() || 1)
Normalize(a) == IF LengthSq(a) = 0 THEN a ELSE VQuot(a, Sqrt(LengthSq(a)))

RECURSIVE VSum(_)
VSum(s) == IF s = <<>> THEN Zero3 ELSE VAdd(Head(s), VSum(Tail(s)))
RECURSIVE Sum(_)
Sum(s) == IF s = <<>> THEN 0 ELSE Head(s) + Sum(Tail(s))

\* Node k of a structure: the first at the origin, later ones along the x
\* axis, nodes 2 and 3 at the same place.
StaticPlace(k) == IF k = 1 THEN Zero3 ELSE <<k \div 2, 0, 0>>

\* calculateForce that classifies by the start node's projection alone
calculateForceByStart(ns, a, b) ==
    LET direction == Normalize(VSub(ns[b].position, ns[a].position))
        startProjection == Dot(ns[a].force, direction)
        endProjection == Dot(ns[b].force, direction)
        value == Quot(Abs(startProjection) + Abs(endProjection), 2)
    IN  IF startProjection > 0
        THEN [forceType |-> "tension", forceValue |-> value]
        ELSE IF startProjection < 0
        THEN [forceType |-> "compression", forceValue |-> value]
        ELSE [forceType |-> "neutral", forceValue |-> 0]

\* calculateForce with tension and compression the wrong way round
calculateForceSwapped(ns, a, b) ==
    LET direction == Normalize(VSub(ns[b].position, ns[a].position))
        startProjection == Dot(ns[a].force, direction)
        endProjection == Dot(ns[b].force, direction)
        value == Quot(Abs(startProjection) + Abs(endProjection), 2)
    IN  IF startProjection > 0 /\ endProjection < 0
        THEN [forceType |-> "compression", forceValue |-> value]
        ELSE IF startProjection < 0 /\ endProjection > 0
        THEN [forceType |-> "tension", forceValue |-> value]
        ELSE [forceType |-> "neutral", forceValue |-> 0]

\* Beam.calculateForce() for a beam from node a to node b
calculateForce(ns, a, b) ==
    LET direction == Normalize(VSub(ns[b].position, ns[a].position))
        startProjection == Dot(ns[a].force, direction)
        endProjection == Dot(ns[b].force, direction)
        value == Quot(Abs(startProjection) + Abs(endProjection), 2)
    IN  IF startProjection > 0 /\ endProjection < 0
        THEN [forceType |-> "tension", forceValue |-> value]
        ELSE IF startProjection < 0 /\ endProjection > 0
        THEN [forceType |-> "compression", forceValue |-> value]
        ELSE [forceType |-> "neutral", forceValue |-> 0]

\* PhysicsEngine.calculateCenterOfGravity(): the weighted position sum and
\* the total mass; the centre of gravity is weightedSum / totalMass.
calculateCenterOfGravity(ns) ==
    LET totalMass == Sum([i \in 1..Len(ns) |-> ns[i].mass])
        weightedSum == VSum([i \in 1..Len(ns) |-> VScale(ns[i].position, ns[i].mass)])
    IN  IF Len(ns) = 0 \/ totalMass <= 0
        THEN [weightedSum |-> Zero3, totalMass |-> 1]
        ELSE [weightedSum |-> weightedSum, totalMass |-> totalMass]

\* Net moment about the centre of gravity, times the total mass
netMomentTimesMass(ns) ==
    LET cog == calculateCenterOfGravity(ns)
    IN  VSum([i \in 1..Len(ns) |->
            Cross(VSub(VScale(ns[i].position, cog.totalMass), cog.weightedSum),
                  ns[i].force)])

\* PhysicsEngine.checkEquilibrium() that looks at the net force only
checkEquilibriumForceOnly(ns) ==
    LET netForce == VSum([i \in 1..Len(ns) |-> ns[i].force])
    IN  IF Len(ns) = 0 THEN [isEquilibrium |-> TRUE, netForce |-> Zero3]
        ELSE [isEquilibrium |->
                  LengthSq(netForce) < EquilibriumTolerance * EquilibriumTolerance,
              netForce |-> netForce]

\* PhysicsEngine.checkEquilibrium()
checkEquilibrium(ns) ==
    LET netForce == VSum([i \in 1..Len(ns) |-> ns[i].force])
        scale == calculateCenterOfGravity(ns).totalMass
    IN  IF Len(ns) = 0 THEN [isEquilibrium |-> TRUE, netForce |-> Zero3]
        ELSE [isEquilibrium |->
                  /\ LengthSq(netForce) < EquilibriumTolerance * EquilibriumTolerance
                  /\ LengthSq(netMomentTimesMass(ns))
                        < EquilibriumTolerance * EquilibriumTolerance * scale * scale,
              netForce |-> netForce]

\* Text of the equilibrium display written by NodeManager.checkEquilibrium()
EquilibriumText(ns) == IF checkEquilibrium(ns).isEquilibrium THEN "IS" ELSE "IS NOT"

fixedNodes(ns) == {i \in 1..Len(ns) : ns[i].isFixed}

\* calculateMissingForces that gives every fixed node the whole reaction
missingForcesUndivided(ns) ==
    LET netForce == VSum([i \in 1..Len(ns) |->
                            IF ns[i].isFixed THEN Zero3 ELSE ns[i].force])
        reactionForce == VScale(netForce, -1)
    IN  IF Len(ns) = 0
        THEN [success |-> FALSE, message |-> "No nodes in the system"]
        ELSE IF fixedNodes(ns) = {}
        THEN [success |-> FALSE, message |-> "No fixed nodes to apply reaction forces"]
        ELSE [success |-> TRUE, reactionForce |-> reactionForce,
              reactionPerNode |-> reactionForce]

\* calculateMissingForces without the check for fixed nodes
missingForcesUnguarded(ns) ==
    LET netForce == VSum([i \in 1..Len(ns) |->
                            IF ns[i].isFixed THEN Zero3 ELSE ns[i].force])
        reactionForce == VScale(netForce, -1)
    IN  IF Len(ns) = 0
        THEN [success |-> FALSE, message |-> "No nodes in the system"]
        ELSE [success |-> TRUE, reactionForce |-> reactionForce,
              reactionPerNode |-> IF fixedNodes(ns) = {} THEN reactionForce
                                  ELSE VQuot(reactionForce, Cardinality(fixedNodes(ns)))]

\* PhysicsEngine.calculateMissingForces()
missingForces(ns) ==
    LET netForce == VSum([i \in 1..Len(ns) |->
                            IF ns[i].isFixed THEN Zero3 ELSE ns[i].force])
        reactionForce == VScale(netForce, -1)
    IN  IF Len(ns) = 0
        THEN [success |-> FALSE, message |-> "No nodes in the system"]
        ELSE IF fixedNodes(ns) = {}
        THEN [success |-> FALSE, message |-> "No fixed nodes to apply reaction forces"]
        ELSE [success |-> TRUE, reactionForce |-> reactionForce,
              reactionPerNode |-> VQuot(reactionForce, Cardinality(fixedNodes(ns)))]

\* NodeManager.calculateMissingForces() that applies the reaction to every node
applyMissingForcesToAll(ns, dt) ==
    LET result == missingForces(ns)
    IN  IF result.success
        THEN [i \in 1..Len(ns) |->
                dampenMotion(setForce(ns[i], result.reactionPerNode, dt), 0)]
        ELSE ns

\* NodeManager.calculateMissingForces(): the nodes after the call
applyMissingForces(ns, dt) ==
    LET result == missingForces(ns)
    IN  IF result.success
        THEN [i \in 1..Len(ns) |->
                dampenMotion(IF ns[i].isFixed
                             THEN setForce(ns[i], result.reactionPerNode, dt)
                             ELSE ns[i], 0)]
        ELSE ns

\* Beams of the structure, as <<start, end>>: one each way between nodes 1
\* and 2, and one between the coincident nodes 2 and 3.
StaticBeams == {<<1, 2>>, <<2, 1>>, <<2, 3>>}

\* A structure of up to MaxStaticNodes nodes, the last fixedCount of them
\* fixed, where setForce was called at most once on each node (updateForce,
\* main.js).  The first node has mass 2, the others mass 1.
InitStatics ==
    /\ variant = "selection"
    /\ joiner = <<>>
    /\ beam = <<>>
    /\ nodes = <<>>
    /\ beams = <<>>
    /\ gizmo = 0
    /\ isGizmoIntersecting = FALSE
    /\ isMultiSelect = FALSE
    /\ isDragSelecting = FALSE
    /\ selectedObjects = <<>>
    /\ linkDisabled = TRUE
    /\ deleteDisabled = TRUE
    /\ infoPanel = ""
    /\ err = "none"
    /\ last = [op |-> "init", arg |-> 0, pair |-> <<0, 0>>]
    /\ \E k \in 0..MaxStaticNodes :
         \E fixedCount \in 0..k, force \in [1..k -> StaticForces \cup {Zero3}] :
           phys = [n |-> [i \in 1..k |->
                            setForce(NewMotion(StaticPlace(i), Zero3,
                                               IF i = 1 THEN 2 ELSE 1,
                                               i > k - fixedCount),
                                     force[i], 1)],
                   dt |-> 1, sets |-> 0, run |-> -1, eq |-> "none",
                   out |-> [op |-> "none"]]

\* Beam.update() of a beam from node a to node b
StaticsCalculateForce(a, b) ==
    /\ a \in 1..Len(phys.n)
    /\ b \in 1..Len(phys.n)
    /\ phys' = [phys EXCEPT !.out = [op |-> "calculateForce",
                                     result |-> calculateForce(phys.n, a, b)]]
    /\ last' = [op |-> "calculateForce", arg |-> 0, pair |-> <<a, b>>]
    /\ err' = "none"
    /\ UiUnchanged

\* NodeManager.checkEquilibrium()
StaticsCheckEquilibrium ==
    /\ phys' = [phys EXCEPT !.eq = EquilibriumText(phys.n),
                            !.out = [op |-> "checkEquilibrium",
                                     result |-> checkEquilibrium(phys.n)]]
    /\ last' = [op |-> "checkEquilibrium", arg |-> 0, pair |-> <<0, 0>>]
    /\ err' = "none"
    /\ UiUnchanged

\* NodeManager.calculateMissingForces()
StaticsCalculateMissingForces ==
    /\ phys.sets < MaxSetForce
    /\ LET result == missingForces(phys.n)
           after == applyMissingForces(phys.n, phys.dt)
       IN  phys' = [phys EXCEPT !.n = after,
                                !.sets = @ + 1,
                                !.eq = IF result.success THEN EquilibriumText(after) ELSE @,
                                !.out = [op |-> "calculateMissingForces",
                                         result |-> result]]
    /\ last' = [op |-> "calculateMissingForces", arg |-> 0, pair |-> <<0, 0>>]
    /\ err' = "none"
    /\ UiUnchanged

NextStatics ==
    \/ \E b \in StaticBeams : StaticsCalculateForce(b[1], b[2])
    \/ StaticsCheckEquilibrium
    \/ StaticsCalculateMissingForces

SpecStatics == InitStatics /\ [][NextStatics]_vars

-----------------------------------------------------------------------------
(* The animation loop of main.js: animate calls world.updateAll(0.016) and  *)
(* then world.render().  JavaScript runs each callback to completion, so    *)
(* the handlers of the user interface run between ticks only.               *)

MaxTicks == 2
MaxDrags == 1
TickNum == 16
TickDen == 1000

\* Beams of the structure in the order of nodeManager.beams
FrameBeams == <<<<1, 2>>, <<2, 1>>>>
\* Places the gizmo drags a node to
DragTargets == {Zero3, <<2, 0, 0>>}
\* Forces entered in the force inputs of the page
FrameForces == {Zero3, <<600, 0, 0>>, <<-600, 0, 0>>}
\* Values typed into the "Force X" field of a node panel
PanelForces == {-600, 600}

\* new Beam(startNode, endNode)
NewBeamState == [length |-> 0, forceType |-> "neutral", forceValue |-> 0]

\* Joiner.update that also moves the node by its velocity
nodeUpdateIntegrating(nd, meshPosition, num, den) ==
    dampenBy([nd EXCEPT !.position =
                  VAdd(meshPosition, VQuot(VScale(nd.velocity, num), den))], num, den)

\* Joiner.update(deltaTime, camera), deltaTime = num / den
nodeUpdate(nd, meshPosition, num, den) ==
    dampenBy([nd EXCEPT !.position = meshPosition], num, den)

\* Beam.update that leaves the length as it was
beamUpdateKeepingLength(bs, ns, a, b) ==
    [length |-> bs.length,
     forceType |-> calculateForce(ns, a, b).forceType,
     forceValue |-> calculateForce(ns, a, b).forceValue]

\* Beam.update(deltaTime, camera) of the beam from node a to node b
beamUpdate(bs, ns, a, b) ==
    [length |-> distanceTo(ns[a].position, ns[b].position),
     forceType |-> calculateForce(ns, a, b).forceType,
     forceValue |-> calculateForce(ns, a, b).forceValue]

\* NodeManager.updateAllBeams(deltaTime)
updateAllBeams(bm, ns) ==
    [j \in 1..Len(bm) |-> beamUpdate(bm[j], ns, FrameBeams[j][1], FrameBeams[j][2])]

\* a tick that renders right after the nodes
stageAfterSkippingBeams(stage) ==
    CASE stage = "nodes" -> "render"
      [] stage = "beams" -> "render"
      [] OTHER -> "idle"

\* World.updateAll and animate: nodes, then beams, then render
stageAfter(stage) ==
    CASE stage = "nodes" -> "beams"
      [] stage = "beams" -> "render"
      [] OTHER -> "idle"

\* Two nodes at rest joined by two beams, before the first frame.
InitFrame ==
    /\ variant = "selection"
    /\ joiner = <<>>
    /\ beam = <<>>
    /\ nodes = <<>>
    /\ beams = <<>>
    /\ gizmo = 0
    /\ isGizmoIntersecting = FALSE
    /\ isMultiSelect = FALSE
    /\ isDragSelecting = FALSE
    /\ selectedObjects = <<>>
    /\ linkDisabled = TRUE
    /\ deleteDisabled = TRUE
    /\ infoPanel = ""
    /\ err = "none"
    /\ last = [op |-> "init", arg |-> 0, pair |-> <<0, 0>>]
    /\ phys = [n |-> [i \in 1..2 |-> NewMotion(StaticPlace(i), Zero3, 1, FALSE)],
            dt |-> 1, sets |-> 0, run |-> -1, eq |-> "none",
            out |-> [op |-> "none"],
            mesh |-> [i \in 1..2 |-> StaticPlace(i)],
            bm |-> [j \in 1..Len(FrameBeams) |-> NewBeamState],
            pc |-> "idle", idx |-> 1, ticks |-> 0, drags |-> 0,
            dragged |-> {}, start |-> <<>>,
            upd |-> [nodes |-> {}, beams |-> {}],
            shown |-> <<>>]

FrameStep(op, arg, pair) ==
    /\ last' = [op |-> op, arg |-> arg, pair |-> pair]
    /\ err' = "none"
    /\ UiUnchanged

\* updateForce (main.js) on node i: setForce, then updateAllBeams(0)
FrameSetForce(i, v) ==
    /\ phys.pc = "idle"
    /\ phys.sets < MaxSetForce
    /\ LET ns == [phys.n EXCEPT ![i] = setForce(phys.n[i], v, phys.dt)]
       IN  phys' = [phys EXCEPT !.n = ns, !.sets = @ + 1,
                                !.bm = updateAllBeams(phys.bm, ns)]
    /\ FrameStep("setForce", v, <<i, 0>>)

\* onUpdate of the node panel, key forceX: writes force.vector.x only
FramePanelForce(i, x) ==
    /\ phys.pc = "idle"
    /\ phys.sets < MaxSetForce
    /\ phys' = [phys EXCEPT !.n[i].force[1] = x, !.sets = @ + 1]
    /\ FrameStep("panelForce", x, <<i, 0>>)

\* The gizmo moves the mesh of node i; the objectChange listener of World
\* calls updateAllBeams(0).
FrameDrag(i, p) ==
    /\ phys.pc = "idle"
    /\ phys.drags < MaxDrags
    /\ phys' = [phys EXCEPT !.mesh[i] = p, !.drags = @ + 1,
                            !.dragged = @ \cup {i},
                            !.bm = updateAllBeams(phys.bm, phys.n)]
    /\ FrameStep("drag", p, <<i, 0>>)

\* animate: world.updateAll(0.016) starts
TickBegin ==
    /\ phys.pc = "idle"
    /\ phys.ticks < MaxTicks
    /\ phys' = [phys EXCEPT !.pc = "nodes", !.idx = 1, !.ticks = @ + 1,
                            !.start = [i \in 1..Len(phys.n) |-> phys.n[i].force],
                            !.upd = [nodes |-> {}, beams |-> {}]]
    /\ FrameStep("tick", 0, <<0, 0>>)

\* updateAllNodes: node.update(deltaTime, camera) of the next node
TickNode ==
    /\ phys.pc = "nodes"
    /\ LET i == phys.idx
           isLast == i = Len(phys.n)
       IN  /\ phys' = [phys EXCEPT
                         !.n[i] = nodeUpdate(phys.n[i], phys.mesh[i], TickNum, TickDen),
                         !.upd.nodes = @ \cup {i},
                         !.idx = IF isLast THEN 1 ELSE i + 1,
                         !.pc = IF isLast THEN stageAfter("nodes") ELSE @]
           /\ FrameStep("nodeUpdate", 0, <<i, 0>>)

\* updateAllBeams: beam.update(deltaTime, camera) of the next beam
TickBeam ==
    /\ phys.pc = "beams"
    /\ LET j == phys.idx
           isLast == j = Len(phys.bm)
       IN  /\ phys' = [phys EXCEPT
                         !.bm[j] = beamUpdate(phys.bm[j], phys.n,
                                              FrameBeams[j][1], FrameBeams[j][2]),
                         !.upd.beams = @ \cup {j},
                         !.idx = IF isLast THEN 1 ELSE j + 1,
                         !.pc = IF isLast THEN stageAfter("beams") ELSE @]
           /\ FrameStep("beamUpdate", 0, <<j, 0>>)

\* animate: world.render() draws the beams as they are
TickRender ==
    /\ phys.pc = "render"
    /\ phys' = [phys EXCEPT !.shown = phys.bm, !.pc = stageAfter("render")]
    /\ FrameStep("render", 0, <<0, 0>>)

NextFrame ==
    \/ \E i \in 1..2, v \in FrameForces : FrameSetForce(i, v)
    \/ \E i \in 1..2, x \in PanelForces : FramePanelForce(i, x)
    \/ \E i \in 1..2, p \in DragTargets : FrameDrag(i, p)
    \/ TickBegin
    \/ TickNode
    \/ TickBeam
    \/ TickRender

SpecFrame == InitFrame /\ [][NextFrame]_vars

----------------------------------------------------------------------------
(* Properties.                                                             *)

\* the node a click picked, 0 if it picked none
ClickedNode(l) == IF l.op = "click" /\ l.arg[1] = "Joiner" THEN l.arg[2] ELSE 0
\* a click that picked nothing
ClickedNothing(l) == l.op = "click" /\ l.arg = NoTarget
\* the nodes of the structure that count as selected by their index
Indexed(j, ns) == {n \in Range(ns) : j[n].selectedIndex \in {1, 2}}
\* the nodes of the structure that are selected
Selected(j, ns) == {n \in Range(ns) : j[n].isSelected}
\* the beams of the structure that reference node n
Referencing(bm, bs, n) == {b \in Range(bs) : bm[b].parents[1] = n \/ bm[b].parents[2] = n}

\* C1: deleteNode(n) on a node of the structure removes n from nodes and
\* every beam that references n from beams, and keeps every other node and
\* every beam that does not reference n ("page" and "selection" managers).
C1_DeleteNodeCascades ==
    [][(last'.op = "deleteNode" /\ variant \in {"page", "selection"}) =>
        LET n == last'.arg
        IN  /\ n \notin Range(nodes')
            /\ Referencing(beam', beams', n) = {}
            /\ Range(nodes') = Range(nodes) \ {n}
            /\ Range(beams') = Range(beams) \ Referencing(beam, beams, n)]_vars

\* C2: at any time at most two nodes have selectedIndex 1 or 2, and when two
\* do, one holds index 1 and the other index 2 ("page" and "selection").
C2_SelectionIndices ==
    variant \in {"page", "selection"} =>
        /\ Cardinality(Indexed(joiner, nodes)) <= 2
        /\ Cardinality(Indexed(joiner, nodes)) = 2 =>
              {joiner[n].selectedIndex : n \in Indexed(joiner, nodes)} = {1, 2}

\* C3: after a plain click on A and a modifier click on B, starting with
\* nothing selected, exactly A and B are selected, and the link action then
\* adds exactly one beam, with endpoints A and B and their distance as its
\* length ("page" and "selection").
C3_ClickClickLink ==
    [][(last'.op = "link" /\ last.pair[2] # 0 /\ variant \in {"page", "selection"}) =>
        LET A == last.pair[1]
            B == last.pair[2]
            b == beams'[Len(beams')]
        IN  /\ Selected(joiner, nodes) = {A, B}
            /\ err' = "none"
            /\ Len(beams') = Len(beams) + 1
            /\ SubSeq(beams', 1, Len(beams)) = beams
            /\ {beam'[b].parents[1], beam'[b].parents[2]} = {A, B}
            /\ beam'[b].length = distanceTo(joiner[A].position, joiner[B].position)]_vars

\* C4: no user action of the "selection" snapshot ends in an exception from
\* operating on an undefined node or beam or on a deleted one.
C4_NoFatalState == variant = "selection" => err = "none"

C7_SelfBeamRejected ==
    [][(last'.op = "createBeam" /\ variant = "selection"
            /\ last'.arg[1] = last'.arg[2]) =>
        beams' = beams /\ beam' = beam]_vars

\* C8: a click on empty space, whatever was selected and whatever the
\* modifier, leaves every node with isSelected false and selectedIndex 0 and
\* sets the status to "No object selected".
C8_EmptyClickClears ==
    [][(ClickedNothing(last') /\ ~isGizmoIntersecting) =>
        /\ \A n \in Range(nodes') :
              ~joiner'[n].isSelected /\ joiner'[n].selectedIndex = 0
        /\ infoPanel' = MsgNone]_vars

\* C9: a click on a node without the modifier leaves the clicked node as the
\* only selected node, with selectedIndex 1 and the gizmo attached to it, and
\* sets the status to "Selected node for movement" ("page" and "selection").
C9_PlainClickSelectsOne ==
    [][(ClickedNode(last') # 0 /\ ~isMultiSelect /\ ~isGizmoIntersecting
            /\ variant \in {"page", "selection"}) =>
        LET n == ClickedNode(last')
        IN  /\ Selected(joiner', nodes') = {n}
            /\ joiner'[n].selectedIndex = 1
            /\ gizmo' = n
            /\ infoPanel' = MsgMove]_vars

\* C10: a modifier click on an unselected node while exactly one other node
\* is selected leaves exactly these two selected, the earlier one with
\* selectedIndex 1 and the clicked one with selectedIndex 2, and sets the
\* status to "Connection established".
C10_SecondOfPair ==
    [][(ClickedNode(last') # 0 /\ isMultiSelect /\ ~isGizmoIntersecting
            /\ ~joiner[ClickedNode(last')].isSelected
            /\ Cardinality(Selected(joiner, nodes)) = 1) =>
        LET n == ClickedNode(last')
            m == CHOOSE x \in Selected(joiner, nodes) : TRUE
        IN  /\ Selected(joiner', nodes') = {m, n}
            /\ joiner'[m].selectedIndex = 1
            /\ joiner'[n].selectedIndex = 2
            /\ infoPanel' = MsgConnection]_vars

\* C11: a modifier click on a third, unselected node while two nodes are
\* selected leaves the clicked node as the only selected node, with
\* selectedIndex 1 and the status "Select an end node (Ctrl-click)".
C11_ThirdClickRestarts ==
    [][(ClickedNode(last') # 0 /\ isMultiSelect /\ ~isGizmoIntersecting
            /\ ~joiner[ClickedNode(last')].isSelected
            /\ Cardinality(Selected(joiner, nodes)) = 2) =>
        LET n == ClickedNode(last')
        IN  /\ Selected(joiner', nodes') = {n}
            /\ joiner'[n].selectedIndex = 1
            /\ infoPanel' = MsgEnd]_vars

\* C12: a modifier click on a selected node unselects that node and leaves
\* the selected / unselected state of every other node as it was.
C12_ToggleOff ==
    [][(ClickedNode(last') # 0 /\ isMultiSelect /\ ~isGizmoIntersecting
            /\ joiner[ClickedNode(last')].isSelected) =>
        LET n == ClickedNode(last')
        IN  /\ ~joiner'[n].isSelected
            /\ \A m \in Range(nodes) \ {n} :
                  joiner'[m].isSelected = joiner[m].isSelected]_vars

\* C13: setForce(v) sets force to v; for v non-zero it adds v / mass to the
\* acceleration and then (new acceleration * simulationTime) to the
\* velocity; for v zero it leaves acceleration and velocity alone.
C13_SetForceAccumulates ==
    [][last'.op = "setForce" =>
        LET v == last'.arg
            old == phys.n[1]
            new == phys'.n[1]
        IN  /\ new.force = v
            /\ IF v = Zero3
               THEN new.acceleration = old.acceleration /\ new.velocity = old.velocity
               ELSE /\ VScale(VSub(new.acceleration, old.acceleration), old.mass) = v
                    /\ new.velocity = VAdd(old.velocity, VScale(new.acceleration, phys.dt))]_vars

\* The same non-zero force was set twice: the acceleration is twice v / mass.
C13_Witness ==
    /\ last.op = "setForce"
    /\ last.arg # Zero3
    /\ phys.sets = 2
    /\ VScale(phys.n[1].acceleration, phys.n[1].mass) = VScale(last.arg, 2)

\* C14: with the force at zero and the velocity starting at (1, 0, 0),
\* dampenMotion(0.1) never increases the magnitude of the velocity, keeps a
\* zero velocity at zero, and has brought the velocity to exactly zero by the
\* time MaxDampen calls were made.
C14_DampenReachesZero ==
    /\ [](phys.run = MaxDampen => phys.n[1].velocity = Zero3)
    /\ [][(last'.op = "dampenMotion" /\ phys.run >= 0) =>
            /\ LengthSq(phys'.n[1].velocity) <= LengthSq(phys.n[1].velocity)
            /\ phys.n[1].velocity = Zero3 => phys'.n[1].velocity = Zero3]_vars

\* MaxDampen calls were made on the node that started at (1, 0, 0).
C14_Witness ==
    /\ last.op = "dampenMotion"
    /\ phys.run = MaxDampen
    /\ phys.n[1].force = Zero3
    /\ phys.n[1].velocity = Zero3

\* Projection of node i's force onto the direction from node a to node b
Projection(ns, a, b, i) ==
    Dot(ns[i].force, Normalize(VSub(ns[b].position, ns[a].position)))

\* C15: calculateForce reports tension with forceValue (|s| + |e|) / 2
\* exactly when s > 0 and e < 0, compression with the same magnitude exactly
\* when s < 0 and e > 0, and neutral with forceValue 0 otherwise, where s and
\* e are the projections of the start and end node's force onto the beam;
\* forceValue is never negative.
C15_BeamForceClassified ==
    [][last'.op = "calculateForce" =>
        LET a == last'.pair[1]
            b == last'.pair[2]
            s == Projection(phys.n, a, b, a)
            e == Projection(phys.n, a, b, b)
            r == phys'.out.result
        IN  /\ r.forceType = "tension" <=> (s > 0 /\ e < 0)
            /\ r.forceType = "compression" <=> (s < 0 /\ e > 0)
            /\ r.forceType \in {"tension", "compression"} =>
                    2 * r.forceValue = Abs(s) + Abs(e)
            /\ ~(s > 0 /\ e < 0) /\ ~(s < 0 /\ e > 0) =>
                    r.forceType = "neutral" /\ r.forceValue = 0
            /\ phys.n[a].position = phys.n[b].position =>
                    r.forceType = "neutral" /\ r.forceValue = 0
            /\ r.forceValue >= 0]_vars

\* The start force F lies along the beam direction and the end force -F
\* against it: tension with value |F|.
C15_Witness ==
    /\ last.op = "calculateForce"
    /\ phys.n[last.pair[1]].force = <<600, 0, 0>>
    /\ phys.n[last.pair[2]].force = <<-600, 0, 0>>
    /\ phys.out.result = [forceType |-> "tension", forceValue |-> 600]

\* C16: with at least one fixed node, calculateMissingForces computes the
\* reaction as minus the sum of the forces of the non-fixed nodes, gives
\* every fixed node the reaction divided by the number of fixed nodes, and
\* leaves the forces of the non-fixed nodes alone.
C16_ReactionShared ==
    [][(last'.op = "calculateMissingForces" /\ fixedNodes(phys.n) # {}) =>
        LET free == VSum([i \in 1..Len(phys.n) |->
                            IF phys.n[i].isFixed THEN Zero3 ELSE phys.n[i].force])
            count == Cardinality(fixedNodes(phys.n))
        IN  /\ phys'.out.result.success
            /\ VAdd(phys'.out.result.reactionForce, free) = Zero3
            /\ Len(phys'.n) = Len(phys.n)
            /\ \A i \in 1..Len(phys.n) :
                 IF phys.n[i].isFixed
                 THEN VAdd(VScale(phys'.n[i].force, count), free) = Zero3
                 ELSE phys'.n[i].force = phys.n[i].force]_vars

\* Two fixed nodes share the reaction to a net force of 600 on the free node.
C16_Witness ==
    /\ last.op = "calculateMissingForces"
    /\ Cardinality(fixedNodes(phys.n)) = 2
    /\ phys.out.result.success
    /\ phys.out.result.reactionForce = <<-600, 0, 0>>
    /\ \A i \in fixedNodes(phys.n) : phys.n[i].force = <<-300, 0, 0>>
    /\ \E i \in 1..Len(phys.n) : ~phys.n[i].isFixed /\ phys.n[i].force = <<600, 0, 0>>

\* C17: with no fixed node, or no node at all, calculateMissingForces
\* reports failure with a message and changes no node: force, acceleration
\* and velocity of every node are as before.
C17_NoFixedNodeNoChange ==
    [][(last'.op = "calculateMissingForces" /\ fixedNodes(phys.n) = {}) =>
        /\ ~phys'.out.result.success
        /\ phys'.out.result.message =
              IF Len(phys.n) = 0 THEN "No nodes in the system"
              ELSE "No fixed nodes to apply reaction forces"
        /\ phys'.n = phys.n
        /\ phys'.eq = phys.eq]_vars

\* The call failed on a structure whose nodes carry forces and are moving.
C17_Witness ==
    /\ last.op = "calculateMissingForces"
    /\ ~phys.out.result.success
    /\ Len(phys.n) > 1
    /\ \A i \in 1..Len(phys.n) : phys.n[i].force # Zero3 /\ phys.n[i].velocity # Zero3

\* C18: checkEquilibrium reports equilibrium exactly when the magnitude of
\* the net force and the magnitude of the net moment about the centre of
\* gravity are both below the tolerance (both sides of the moment comparison
\* are multiplied by the total mass); two nodes with F and -F along the line
\* joining them are in equilibrium, and so is the empty system.
C18_EquilibriumWithinTolerance ==
    [][last'.op = "checkEquilibrium" =>
        LET ns == phys.n
            r == phys'.out.result
            netForce == VSum([i \in 1..Len(ns) |-> ns[i].force])
            mass == Sum([i \in 1..Len(ns) |-> ns[i].mass])
            totalMass == IF mass > 0 THEN mass ELSE 1
            weighted == VSum([i \in 1..Len(ns) |-> VScale(ns[i].position, ns[i].mass)])
            moment == VSum([i \in 1..Len(ns) |->
                          Cross(VSub(VScale(ns[i].position, totalMass), weighted),
                                ns[i].force)])
            limit == EquilibriumTolerance * EquilibriumTolerance
        IN  /\ r.isEquilibrium <=>
                  /\ LengthSq(netForce) < limit
                  /\ LengthSq(moment) < limit * totalMass * totalMass
            /\ Len(ns) = 0 => r.isEquilibrium
            /\ (/\ Len(ns) = 2
                /\ ns[1].position # ns[2].position
                /\ VAdd(ns[1].force, ns[2].force) = Zero3
                /\ Cross(VSub(ns[2].position, ns[1].position), ns[1].force) = Zero3)
                  => r.isEquilibrium
            /\ phys'.eq = IF r.isEquilibrium THEN "IS" ELSE "IS NOT"]_vars

\* Two nodes pulled apart by F and -F along their line were found in equilibrium.
C18_Witness ==
    /\ last.op = "checkEquilibrium"
    /\ Len(phys.n) = 2
    /\ phys.n[1].force = <<-600, 0, 0>>
    /\ phys.n[2].force = <<600, 0, 0>>
    /\ phys.out.result.isEquilibrium

\* C19: unselect() on a node that is not selected changes nothing: the
\* selection state of every node and the gizmo attachment stay as they were.
C19_UnselectIdempotent ==
    [][(last'.op = "unselect" /\ ~joiner[last'.arg].isSelected) =>
        /\ joiner' = joiner
        /\ gizmo' = gizmo]_vars

\* C20: a selected node that is deleted is no longer selected afterwards:
\* isSelected is false, selectedIndex is 0, the node is in no selected-node
\* query and not in the selection list, and the gizmo is not attached to it.
C20_DeletedNodeUnselected ==
    [][\A n \in Range(nodes) \ Range(nodes') :
        joiner[n].isSelected =>
            /\ ~joiner'[n].isSelected
            /\ joiner'[n].selectedIndex = 0
            /\ n \notin Range(selectedNodes')
            /\ <<"Joiner", n>> \notin Range(selectedObjects')
            /\ gizmo' # n]_vars

\* C22: for every node, isSelected holds exactly when selectedIndex is
\* greater than 0, and selectedIndex is 0, 1 or 2.
C22_IndexMatchesSelected ==
    \A n \in DOMAIN joiner :
        /\ joiner[n].isSelected <=> joiner[n].selectedIndex > 0
        /\ joiner[n].selectedIndex \in {0, 1, 2}

\* Two Joiner nodes are selected, with indices 1 and 2, and a third is not.
C22_Witness ==
    /\ variant # "world"
    /\ \E a, b, c \in Range(nodes) :
         /\ joiner[a].isSelected /\ joiner[a].selectedIndex = 1
         /\ joiner[b].isSelected /\ joiner[b].selectedIndex = 2
         /\ ~joiner[c].isSelected /\ joiner[c].selectedIndex = 0

\* C23: select(allowMultiple) adds one to selectedIndex and marks the node
\* selected, unless the new index exceeds 2, or exceeds 1 while allowMultiple
\* is false: then the node is unselected, with selectedIndex 0.
C23_SelectIncrementsOrUnselects ==
    [][last'.op = "select" =>
        LET n == last'.arg[1]
            allowMultiple == last'.arg[2]
            idx == joiner[n].selectedIndex + 1
        IN  IF idx > 2 \/ (idx > 1 /\ ~allowMultiple)
            THEN ~joiner'[n].isSelected /\ joiner'[n].selectedIndex = 0
            ELSE joiner'[n].isSelected /\ joiner'[n].selectedIndex = idx]_vars

\* select(true) took a node from selectedIndex 1 to 2.
C23_Witness ==
    /\ last.op = "select"
    /\ last.arg[2]
    /\ joiner[last.arg[1]].isSelected
    /\ joiner[last.arg[1]].selectedIndex = 2

\* C24: with the force at zero, dampenMotion(dt) takes frictionAcceleration
\* = -velocity from the velocity before the call, sets the velocity to
\* velocity + frictionAcceleration * dt, and moves the acceleration toward
\* that frictionAcceleration (not scaled by dt) by the factor dt / 2; with a
\* force that is not zero it changes neither velocity nor acceleration.
C24_DampenTowardFriction ==
    [][last'.op = "dampenMotion" =>
        LET old == phys.n[1]
            new == phys'.n[1]
            tenths == last'.arg
            frictionAcceleration == VScale(old.velocity, -1)
        IN  IF old.force = Zero3
            THEN /\ new.velocity =
                      VAdd(old.velocity, VQuot(VScale(frictionAcceleration, tenths), 10))
                 /\ new.acceleration =
                      Lerp(old.acceleration, frictionAcceleration, tenths, 20)
            ELSE /\ new.velocity = old.velocity
                 /\ new.acceleration = old.acceleration]_vars

\* C25: a beam whose end forces pull away from each other along the beam
\* (the start node's force points away from the end node, the end node's
\* force away from the start node) is classified tension; a beam whose end
\* forces push toward each other is classified compression.
C25_PullIsTension ==
    [][last'.op = "calculateForce" =>
        LET a == last'.pair[1]
            b == last'.pair[2]
            toEnd == VSub(phys.n[b].position, phys.n[a].position)
            startAlong == Dot(phys.n[a].force, toEnd)
            endAlong == Dot(phys.n[b].force, toEnd)
            r == phys'.out.result
        IN  /\ (startAlong < 0 /\ endAlong > 0) => r.forceType = "tension"
            /\ (startAlong > 0 /\ endAlong < 0) => r.forceType = "compression"]_vars

\* C29: calculateForce gives the same forceType and forceValue for the beam
\* from a to b as for the beam from b to a.
C29_EndpointOrderIrrelevant ==
    [][last'.op = "calculateForce" =>
        phys'.out.result = calculateForce(phys.n, last'.pair[2], last'.pair[1])]_vars

\* A beam between two nodes apart, one force along it and a smaller one
\* against it, was classified tension with the mean magnitude.
C29_Witness ==
    /\ last.op = "calculateForce"
    /\ phys.n[last.pair[1]].position # phys.n[last.pair[2]].position
    /\ phys.out.result = [forceType |-> "tension", forceValue |-> 330]

\* C21: in every tick all node updates are done before a beam update starts
\* and all beam updates are done before the render call, and a beam update
\* classifies the beam by the forces the nodes had when the tick began.
C21_NodesThenBeamsThenRender ==
    /\ [](/\ phys.pc = "nodes" => phys.upd.beams = {}
          /\ phys.pc = "beams" => phys.upd.nodes = 1..Len(phys.n)
          /\ phys.pc = "render" =>
                /\ phys.upd.nodes = 1..Len(phys.n)
                /\ phys.upd.beams = 1..Len(phys.bm))
    /\ [][last'.op = "beamUpdate" =>
            LET j == last'.pair[1]
                atStart == [i \in 1..Len(phys.n) |->
                              [position |-> phys.n[i].position, force |-> phys.start[i]]]
                r == calculateForce(atStart, FrameBeams[j][1], FrameBeams[j][2])
            IN  /\ phys'.bm[j].forceType = r.forceType
                /\ phys'.bm[j].forceValue = r.forceValue]_vars

\* A tick reached its render call with opposite forces on the two nodes,
\* and the first beam carries their classification, not yet drawn.
C21_Witness ==
    /\ phys.pc = "render"
    /\ phys.n[1].force = <<600, 0, 0>>
    /\ phys.n[2].force = <<-600, 0, 0>>
    /\ phys.bm[1].forceType = "tension"
    /\ phys.shown # phys.bm

\* C26: when a tick ends, the length of each beam is the distance between
\* the mesh positions of its two nodes, and its forceType and forceValue are
\* the classification of the forces its nodes have now.
C26_BeamsCurrentAtTickEnd ==
    [][last'.op = "render" =>
        LET now == [i \in 1..Len(phys'.n) |->
                      [position |-> phys'.mesh[i], force |-> phys'.n[i].force]]
        IN  \A j \in 1..Len(phys'.bm) :
              LET a == FrameBeams[j][1]
                  b == FrameBeams[j][2]
              IN  /\ phys'.bm[j].length = distanceTo(phys'.mesh[a], phys'.mesh[b])
                  /\ phys'.bm[j].forceType = calculateForce(now, a, b).forceType
                  /\ phys'.bm[j].forceValue = calculateForce(now, a, b).forceValue]_vars

\* A tick ended after node 2 was dragged away and forces were set: the beam
\* has the new length and is classified.
C26_Witness ==
    /\ last.op = "render"
    /\ phys.dragged = {2}
    /\ phys.bm[1].length = 2
    /\ phys.bm[1].forceType = "compression"

C27_SelectionListExact ==
    variant = "selection" =>
        /\ \A i, k \in 1..Len(selectedObjects) :
             selectedObjects[i] = selectedObjects[k] => i = k
        /\ Range(selectedObjects) =
             {<<"Joiner", n>> : n \in {m \in Range(nodes) : joiner[m].isSelected}}
             \cup {<<"Beam", b>> : b \in {c \in Range(beams) : beam[c].isSelected}}

\* C28: after calculateMissingForces succeeds, the forces of the fixed nodes
\* add up to minus the sum of the forces of the non-fixed nodes, so the net
\* force over all nodes is zero; a second call right after it leaves every
\* node's force as it is.
C28_ReactionBalances ==
    [][(last'.op = "calculateMissingForces" /\ phys'.out.result.success) =>
        LET fixedSum == VSum([i \in 1..Len(phys'.n) |->
                        IF phys'.n[i].isFixed THEN phys'.n[i].force ELSE Zero3])
            freeSum == VSum([i \in 1..Len(phys'.n) |->
                        IF phys'.n[i].isFixed THEN Zero3 ELSE phys'.n[i].force])
        IN  /\ VAdd(fixedSum, freeSum) = Zero3
            /\ VSum([i \in 1..Len(phys'.n) |-> phys'.n[i].force]) = Zero3
            /\ last.op = "calculateMissingForces" =>
                 \A i \in 1..Len(phys.n) : phys'.n[i].force = phys.n[i].force]_vars

\* A second call succeeded on two fixed nodes that carry a reaction.
C28_Witness ==
    /\ last.op = "calculateMissingForces"
    /\ phys.sets = 2
    /\ phys.out.result.success
    /\ Cardinality(fixedNodes(phys.n)) = 2
    /\ \A i \in fixedNodes(phys.n) : phys.n[i].force = <<-300, 0, 0>>

====
